---------------------------- MODULE Spec2Model ----------------------------
(***************************************************************************)
(* A model of etl.py: the I-94 immigration ETL that decodes the SAS label  *)
(* file, enriches and cleans the immigration records, and assembles the    *)
(* star schema (four dimensions, one fact table).                          *)
(*                                                                         *)
(* A dataframe is a sequence of rows (records); the order of the sequence  *)
(* carries no meaning, it only lets a relation hold the same row twice.    *)
(* A cell is a tagged value: Null, IntCell(n), DblCell(tenths) or           *)
(* StrCell(chars),                                                         *)
(* where a string is the sequence of its characters.  Of the 28 columns of  *)
(* an immigration record the model keeps the ones the code names in a      *)
(* condition, a cast, a lookup or a join, and visapost for the columns     *)
(* that are only carried along.                                            *)
(***************************************************************************)
EXTENDS Integers, Sequences, FiniteSets, TLC

VARIABLES
    pc,                  \* the statement of main() that runs next
    err,                 \* the exception that ended the run, or "none"
    fs,                  \* the source files: path |-> content, NoFile when unreadable
    df_immigration, df_temperature, df_demographics, df_airport_codes,
    i94cit_res, i94mode, i94addr,          \* the decoded code |-> label tables
    calendar_dim, country_dim, us_airport_dim, us_demographics_dim,
    immigration_fact,
    written,             \* the relations written so far, in order
    arg_immigration,     \* history: the df_immigration the last stage received
    arg_temperature,     \* history: the df_temperature the last stage received
    again                \* the result of running the cleaners on their own output

vars == <<pc, err, fs, df_immigration, df_temperature, df_demographics,
          df_airport_codes, i94cit_res, i94mode, i94addr, calendar_dim,
          country_dim, us_airport_dim, us_demographics_dim, immigration_fact,
          written, arg_immigration, arg_temperature, again>>

----------------------------------------------------------------------------
(* Sequences and characters *)

Range(s) == {s[i] : i \in 1..Len(s)}

RECURSIVE SelectIdx(_, _, _)
\* the rows of df at the positions in keep, from position i on, in order
SelectIdx(df, keep, i) ==
    IF i > Len(df) THEN <<>>
    ELSE (IF i \in keep THEN <<df[i]>> ELSE <<>>) \o SelectIdx(df, keep, i + 1)

RECURSIVE Flatten(_)
Flatten(ss) == IF ss = <<>> THEN <<>> ELSE Head(ss) \o Flatten(Tail(ss))

RECURSIVE SetToSeq(_)
\* the elements of a finite set, each once, in some order
SetToSeq(S) ==
    IF S = {} THEN <<>>
    ELSE LET x == CHOOSE y \in S : TRUE IN <<x>> \o SetToSeq(S \ {x})

Digits == <<"0", "1", "2", "3", "4", "5", "6", "7", "8", "9">>

DigitValue(c) == (CHOOSE i \in 1..10 : Digits[i] = c) - 1

IsDigit(c) == c \in Range(Digits)

RECURSIVE NatToStr(_)
NatToStr(n) == IF n < 10 THEN <<Digits[n + 1]>>
               ELSE NatToStr(n \div 10) \o <<Digits[(n % 10) + 1]>>

\* str(n) of an integer
IntToStr(n) == IF n < 0 THEN <<"-">> \o NatToStr(0 - n) ELSE NatToStr(n)

RECURSIVE StrToNat(_)
\* the number a sequence of digits spells
StrToNat(s) == IF s = <<>> THEN 0
               ELSE 10 * StrToNat(SubSeq(s, 1, Len(s) - 1)) + DigitValue(s[Len(s)])

RECURSIVE ZeroPad(_, _)
ZeroPad(s, w) == IF Len(s) >= w THEN s ELSE ZeroPad(<<"0">> \o s, w)

Upper == <<"A", "B", "C", "D", "E", "F", "G", "H", "I", "J", "K", "L", "M",
           "N", "O", "P", "Q", "R", "S", "T", "U", "V", "W", "X", "Y", "Z">>
Lower == <<"a", "b", "c", "d", "e", "f", "g", "h", "i", "j", "k", "l", "m",
           "n", "o", "p", "q", "r", "s", "t", "u", "v", "w", "x", "y", "z">>

\* int(s) of an optional minus sign and digits
StrToInt(s) == IF s # <<>> /\ Head(s) = "-" THEN 0 - StrToNat(Tail(s)) ELSE StrToNat(s)

----------------------------------------------------------------------------
(* Cells.  The payload v of every cell is a sequence of characters, so that *)
(* any two cells can be compared: the decimal digits of an integer, of the  *)
(* tenths of a double, or the characters of a string.                       *)

Null == [t |-> "null", v |-> <<>>]
IntCell(n) == [t |-> "int", v |-> IntToStr(n)]
\* a double, held in tenths: DblCell(25) is 2.5
DblCell(n) == [t |-> "double", v |-> IntToStr(n)]
StrCell(s) == [t |-> "str", v |-> s]

IsNull(c) == c.t = "null"

\* the number an int cell holds; the tenths a double cell holds
NumOf(c) == StrToInt(c.v)

NoFile == [t |-> "nofile", v |-> <<>>]

LowerChar(c) == IF c \in Range(Upper)
                THEN Lower[CHOOSE i \in 1..26 : Upper[i] = c] ELSE c

\* SQL lower(): null stays null
LowerStr(c) == IF IsNull(c) THEN Null
               ELSE StrCell([i \in 1..Len(c.v) |-> LowerChar(c.v[i])])

----------------------------------------------------------------------------
(* datetime.date arithmetic, as CPython computes it *)

DAYS_IN_MONTH == <<31, 28, 31, 30, 31, 30, 31, 31, 30, 31, 30, 31>>
DAYS_BEFORE_MONTH == <<0, 31, 59, 90, 120, 151, 181, 212, 243, 273, 304, 334>>

MAXORDINAL == 3652059

is_leap(y) == y % 4 = 0 /\ (y % 100 # 0 \/ y % 400 = 0)

days_before_year(year) ==
    LET y == year - 1 IN y * 365 + y \div 4 - y \div 100 + y \div 400

days_before_month(year, month) ==
    DAYS_BEFORE_MONTH[month] + (IF month > 2 /\ is_leap(year) THEN 1 ELSE 0)

ymd2ord(year, month, day) ==
    days_before_year(year) + days_before_month(year, month) + day

\* the <<year, month, day>> of proleptic Gregorian ordinal n0 (1 is 0001-01-01)
ord2ymd(n0) ==
    LET a == n0 - 1
        n400 == a \div 146097
        b == a % 146097
        n100 == b \div 36524
        c == b % 36524
        n4 == c \div 1461
        d == c % 1461
        n1 == d \div 365
        n == d % 365
        year == n400 * 400 + 1 + n100 * 100 + n4 * 4 + n1
        leapyear == n1 = 3 /\ (n4 # 24 \/ n100 = 3)
        month0 == (n + 50) \div 32
        preceding0 == DAYS_BEFORE_MONTH[month0]
                      + (IF month0 > 2 /\ leapyear THEN 1 ELSE 0)
        month == IF preceding0 > n THEN month0 - 1 ELSE month0
        preceding == IF preceding0 > n
                     THEN preceding0 - (DAYS_IN_MONTH[month]
                                        + (IF month = 2 /\ leapyear THEN 1 ELSE 0))
                     ELSE preceding0
    IN  IF n1 = 4 \/ n100 = 4 THEN <<year - 1, 12, 31>>
        ELSE <<year, month, n - preceding + 1>>

\* date.isoformat(): "%04d-%02d-%02d"
isoformat(ymd) ==
    ZeroPad(NatToStr(ymd[1]), 4) \o <<"-">> \o ZeroPad(NatToStr(ymd[2]), 2)
        \o <<"-">> \o ZeroPad(NatToStr(ymd[3]), 2)

\* Python truthiness of the value a UDF receives for a cell
Truthy(x) ==
    CASE x.t = "null" -> FALSE
      [] x.t = "int" -> NumOf(x) # 0
      [] x.t = "double" -> NumOf(x) # 0
      [] x.t = "str" -> x.v # <<>>

TypeError == [t |-> "TypeError", v |-> <<>>]
OverflowError == [t |-> "OverflowError", v |-> <<>>]

IsError(c) == c.t \in {"TypeError", "OverflowError"}

\* a conversion that hands a string back as it is
get_date_KeepsStrings(x) ==
    IF ~Truthy(x) THEN Null
    ELSE IF x.t = "str" THEN x
    ELSE StrCell(isoformat(ord2ymd(ymd2ord(1960, 1, 1) + NumOf(x))))

\* lambda x: (dt.datetime(1960, 1, 1).date() + dt.timedelta(x)).isoformat() if x else None
\* timedelta() of a string raises TypeError; of a fractional day count only the
\* whole days (the floor) reach timedelta.days, which is what date.__add__ reads.
get_date(x) ==
    IF ~Truthy(x) THEN Null
    ELSE IF x.t = "str" THEN TypeError
    ELSE LET days == IF x.t = "double" THEN NumOf(x) \div 10 ELSE NumOf(x)
             o == ymd2ord(1960, 1, 1) + days
         IN  IF 0 < o /\ o <= MAXORDINAL THEN StrCell(isoformat(ord2ymd(o)))
             ELSE OverflowError

----------------------------------------------------------------------------
(* Dataframe operations *)

MapRows(df, F(_)) == [i \in 1..Len(df) |-> F(df[i])]

\* DataFrame.drop(*cols): a column the frame does not have is ignored
DropColumns(df, cols) ==
    [i \in 1..Len(df) |-> [f \in (DOMAIN df[i]) \ cols |-> df[i][f]]]

\* the projection of a row on the columns cols
Key(row, cols) == [f \in cols |-> row[f]]

\* DataFrame.dropDuplicates(subset): the sets of positions that keep exactly
\* one row for every distinct value of the subset (null is a value like any
\* other); which row of a group is kept is not defined
DedupChoices(df, cols) ==
    {keep \in SUBSET (1..Len(df)) :
        /\ \A i \in 1..Len(df) : \E j \in keep : Key(df[j], cols) = Key(df[i], cols)
        /\ \A i, j \in keep : Key(df[i], cols) = Key(df[j], cols) => i = j}

\* DataFrame.dropna(how='all', subset=cols): drops the rows in which every
\* column of the subset is null
DropNaAll(df, cols) ==
    SelectIdx(df, {i \in 1..Len(df) : \E f \in cols : ~IsNull(df[i][f])}, 1)

\* DataFrame.na.drop(subset=cols), how='any': drops the rows in which some
\* column of the subset is null
DropNaAny(df, cols) ==
    SelectIdx(df, {i \in 1..Len(df) : \A f \in cols : ~IsNull(df[i][f])}, 1)

----------------------------------------------------------------------------
(* clean_immigration_data, clean_temperature_data *)

drop_cols == {"occup", "entdepu", "insnum"}

Outcome(e, df) == [err |-> e, df |-> df]

ConvertDates(df) ==
    MapRows(df, LAMBDA r : [r EXCEPT !.arrdate = get_date(@), !.depdate = get_date(@)])

\* the exception the date UDF raises on some row, "none" when it raises on no row
DateFailure(df) ==
    IF \E i \in 1..Len(df) : df[i].arrdate.t = "TypeError" \/ df[i].depdate.t = "TypeError"
    THEN "TypeError"
    ELSE IF \E i \in 1..Len(df) : IsError(df[i].arrdate) \/ IsError(df[i].depdate)
    THEN "OverflowError"
    ELSE "none"

\* the null filter left out
DropNullCicid_Skipped(df) == df

DropNullCicid(df) == DropNaAll(df, {"cicid"})

\* the deduplication left out
DedupCicid_KeepAll(df) == {1..Len(df)}

DedupCicid(df) == DedupChoices(df, {"cicid"})

\* the outcomes of clean_immigration_data(df): one per choice of the rows that
\* dropDuplicates keeps, or the exception of the date UDF
clean_immigration_data(df) ==
    LET dated == ConvertDates(df)
        pruned == DropColumns(dated, drop_cols)
    IN  IF DateFailure(dated) # "none" THEN {Outcome(DateFailure(dated), <<>>)}
        ELSE {Outcome("none", DropNullCicid(SelectIdx(pruned, keep, 1))) :
                  keep \in DedupCicid(pruned)}

\* dropDuplicates() on every column keeps one of each group of identical rows;
\* the rows of a group being equal, the first stands for any
DropDuplicateRows(df) ==
    SelectIdx(df, {i \in 1..Len(df) : \A j \in 1..(i - 1) : df[j] # df[i]}, 1)

clean_temperature_data(df) ==
    DropNaAny(DropDuplicateRows(df), {"AverageTemperature"})

----------------------------------------------------------------------------
(* main(): the cleaning statements *)

NoOutcome == Outcome("unset", <<>>)

\* df_immigration = clean_immigration_data(df_immigration)
CleanImmigrationData ==
    /\ pc = "clean_imm"
    /\ \E out \in clean_immigration_data(df_immigration) :
          /\ arg_immigration' = df_immigration
          /\ IF out.err = "none"
             THEN df_immigration' = out.df /\ pc' = "clean_temp" /\ err' = err
             ELSE df_immigration' = df_immigration /\ pc' = "aborted" /\ err' = out.err
    /\ UNCHANGED <<fs, df_temperature, df_demographics, df_airport_codes, i94cit_res,
                   i94mode, i94addr, calendar_dim, country_dim, us_airport_dim,
                   us_demographics_dim, immigration_fact, written, arg_temperature,
                   again>>

\* df_temperature = clean_temperature_data(df_temperature)
CleanTemperatureData ==
    /\ pc = "clean_temp"
    /\ arg_temperature' = df_temperature
    /\ df_temperature' = clean_temperature_data(df_temperature)
    /\ pc' = "process"
    /\ UNCHANGED <<err, fs, df_immigration, df_demographics, df_airport_codes,
                   i94cit_res, i94mode, i94addr, calendar_dim, country_dim,
                   us_airport_dim, us_demographics_dim, immigration_fact, written,
                   arg_immigration, again>>

\* the two cleaners run once more, each on its own output
Renormalize ==
    /\ pc = "process"
    /\ \E out \in clean_immigration_data(df_immigration) :
          again' = [imm |-> out, temp |-> clean_temperature_data(df_temperature)]
    /\ pc' = "renormalized"
    /\ UNCHANGED <<err, fs, df_immigration, df_temperature, df_demographics,
                   df_airport_codes, i94cit_res, i94mode, i94addr, calendar_dim,
                   country_dim, us_airport_dim, us_demographics_dim,
                   immigration_fact, written, arg_immigration, arg_temperature>>

----------------------------------------------------------------------------
(* Inputs *)

MaxRows == 2

\* the sequences over S of length at most n
SeqUpTo(S, n) == UNION {[1..k -> S] : k \in 0..n}

X == <<"x">>

\* an enriched immigration record whose codes are all null
ImmRow(cicid, arr, dep, other, sparse) ==
    [cicid |-> cicid, i94cit |-> Null, i94res |-> Null, i94mode |-> Null,
     i94visa |-> Null, i94port |-> Null, i94addr |-> Null,
     arrdate |-> arr, depdate |-> dep, visapost |-> other,
     occup |-> sparse, entdepu |-> sparse, insnum |-> sparse,
     i94cit_value |-> Null, i94res_value |-> Null, i94mode_value |-> Null,
     i94addr_value |-> Null, i94visa_value |-> Null]

CleanImmRows ==
    {ImmRow(c, a, rest[1], rest[2], rest[3]) :
        c \in {Null, IntCell(1), IntCell(2)},
        a \in {Null, IntCell(0), IntCell(21915)},
        rest \in {<<Null, Null, Null>>, <<IntCell(60), StrCell(X), Null>>,
                  <<IntCell(-1), Null, StrCell(X)>>,  <<Null, Null, StrCell(X)>>}}

DE == <<"D", "E">>
FR == <<"F", "R">>

TempRow(country, avg) == [Country |-> country, AverageTemperature |-> avg]

CleanTempRows ==
    {TempRow(c, a) : c \in {Null, StrCell(DE), StrCell(FR)}, a \in {Null, DblCell(155)}}

TempSample == <<TempRow(StrCell(DE), DblCell(155)), TempRow(StrCell(DE), Null),
                TempRow(StrCell(DE), DblCell(155))>>

NoTables == <<>>

NoAgain == [imm |-> NoOutcome, temp |-> <<>>]

NoFs == [immigration |-> NoFile, temperature |-> NoFile, demographics |-> NoFile,
         airport |-> NoFile, labels |-> NoFile]

\* the cleaners, entered with the frames main() hands them
InitClean ==
    /\ pc = "clean_imm"
    /\ err = "none"
    /\ fs = NoFs
    /\ \/ /\ df_immigration \in SeqUpTo(CleanImmRows, MaxRows)
          /\ df_temperature \in {<<>>, TempSample}
       \/ df_immigration = <<>> /\ df_temperature \in SeqUpTo(CleanTempRows, MaxRows)
    /\ df_demographics = <<>>
    /\ df_airport_codes = <<>>
    /\ i94cit_res = NoTables /\ i94mode = NoTables /\ i94addr = NoTables
    /\ calendar_dim = <<>> /\ country_dim = <<>> /\ us_airport_dim = <<>>
    /\ us_demographics_dim = <<>> /\ immigration_fact = <<>>
    /\ written = <<>>
    /\ arg_immigration = <<>> /\ arg_temperature = <<>>
    /\ again = NoAgain

NextClean == CleanImmigrationData \/ CleanTemperatureData \/ Renormalize

SpecClean == InitClean /\ [][NextClean]_vars

----------------------------------------------------------------------------
(* The cleaners: properties *)

Cleaned == pc \in {"clean_temp", "process", "renormalized"}

\* days since 1970-01-01 to <<year, month, day>>, by the era/day-of-era method
CivilFromDays(z0) ==
    LET z == z0 + 719468
        era == z \div 146097
        doe == z - era * 146097
        yoe == (doe - doe \div 1460 + doe \div 36524 - doe \div 146096) \div 365
        doy == doe - (365 * yoe + yoe \div 4 - yoe \div 100)
        mp == (5 * doy + 2) \div 153
        d == doy - (153 * mp + 2) \div 5 + 1
        m == IF mp < 10 THEN mp + 3 ELSE mp - 9
    IN  <<yoe + era * 400 + (IF m <= 2 THEN 1 ELSE 0), m, d>>

\* 1960-01-01 is 3653 days before 1970-01-01
SasDate(c) == IF IsNull(c) THEN Null ELSE StrCell(isoformat(CivilFromDays(NumOf(c) - 3653)))

\* C1 (as claimed): every cleaned row carries, for arrdate and depdate, the date
\* 1960-01-01 + n of the offset n of the input row it comes from (0 gives
\* 1960-01-01, 21915 gives 2020-01-01), and a null date exactly for a null offset.
C1_DateConversion ==
    /\ SasDate(IntCell(0)) = StrCell(<<"1", "9", "6", "0", "-", "0", "1", "-", "0", "1">>)
    /\ SasDate(IntCell(21915)) = StrCell(<<"2", "0", "2", "0", "-", "0", "1", "-", "0", "1">>)
    /\ Cleaned =>
          \A i \in 1..Len(df_immigration) : \E j \in 1..Len(arg_immigration) :
              /\ arg_immigration[j].cicid = df_immigration[i].cicid
              /\ df_immigration[i].arrdate = SasDate(arg_immigration[j].arrdate)
              /\ df_immigration[i].depdate = SasDate(arg_immigration[j].depdate)

Retained(row) == (DOMAIN row) \ drop_cols

AllNull(row) == \A f \in Retained(row) : IsNull(row[f])

Represented(row) == \E i \in 1..Len(df_immigration) : df_immigration[i].cicid = row.cicid

\* C3 (as claimed): no all-null row is in the cleaned relation, and every input
\* row with a non-null retained column has its cicid in the cleaned relation.
C3_CompletenessFilter_Original ==
    Cleaned =>
        /\ \A i \in 1..Len(df_immigration) : ~AllNull(df_immigration[i])
        /\ \A j \in 1..Len(arg_immigration) :
              ~AllNull(arg_immigration[j]) => Represented(arg_immigration[j])

\* C3 (amended): an input row is represented in the cleaned relation exactly
\* when its cicid is not null, whatever its other columns hold; so no all-null
\* row is in the cleaned relation, and every cleaned row is an input row with
\* its sparse columns dropped and its dates converted.
C3_CompletenessFilter ==
    Cleaned =>
        /\ \A i \in 1..Len(df_immigration) : ~AllNull(df_immigration[i])
        /\ \A j \in 1..Len(arg_immigration) :
              Represented(arg_immigration[j]) <=> ~IsNull(arg_immigration[j].cicid)
        /\ \A i \in 1..Len(df_immigration) : \E j \in 1..Len(arg_immigration) :
              df_immigration[i] =
                  [f \in Retained(arg_immigration[j]) |->
                      IF f \in {"arrdate", "depdate"}
                      THEN get_date(arg_immigration[j][f]) ELSE arg_immigration[j][f]]

\* a cleaned run whose input held a row without cicid but with data, a row with
\* everything null, and a row that survives
C3_Witness ==
    /\ Cleaned
    /\ \E j \in 1..Len(arg_immigration) :
          IsNull(arg_immigration[j].cicid) /\ ~AllNull(arg_immigration[j])
    /\ \E j \in 1..Len(arg_immigration) :
          ~IsNull(arg_immigration[j].cicid) /\ ~IsNull(arg_immigration[j].visapost)
    /\ Len(df_immigration) = 1

\* C4: in the cleaned relation no two rows share a cicid and no cicid is null,
\* and every distinct non-null cicid of the input is on exactly one row.
C4_CicidUnique ==
    Cleaned =>
        /\ \A i, j \in 1..Len(df_immigration) :
              df_immigration[i].cicid = df_immigration[j].cicid => i = j
        /\ \A i \in 1..Len(df_immigration) : ~IsNull(df_immigration[i].cicid)
        /\ \A j \in 1..Len(arg_immigration) :
              ~IsNull(arg_immigration[j].cicid) =>
                  Cardinality({i \in 1..Len(df_immigration) :
                      df_immigration[i].cicid = arg_immigration[j].cicid}) = 1

\* a cleaned run whose input held two different rows with one cicid
C4_Witness ==
    /\ Cleaned
    /\ \E i, j \in 1..Len(arg_immigration) :
          /\ i # j
          /\ arg_immigration[i].cicid = arg_immigration[j].cicid
          /\ ~IsNull(arg_immigration[i].cicid)
          /\ arg_immigration[i] # arg_immigration[j]
    /\ Len(df_immigration) = 1

HasDate(row) == ~IsNull(row.arrdate) \/ ~IsNull(row.depdate)

\* C7 (as claimed): the second run of the cleaners succeeds and returns the
\* relations it was given.
C7_Idempotent_Original ==
    pc = "renormalized" =>
        /\ again.imm.err = "none"
        /\ again.imm.df = df_immigration
        /\ again.temp = df_temperature

\* C7 (amended): on cleaned data the row-removing steps remove nothing (the
\* deduplication and the null filter of either cleaner return their input),
\* and clean_temperature_data returns its input; clean_immigration_data as a
\* whole returns its input when every arrdate and depdate in it is null, and
\* otherwise fails with a TypeError, the date being a string by then.
C7_Idempotent ==
    pc = "renormalized" =>
        /\ again.temp = df_temperature
        /\ \A keep \in DedupCicid(df_immigration) :
              DropNullCicid(SelectIdx(df_immigration, keep, 1)) = df_immigration
        /\ IF \E i \in 1..Len(df_immigration) : HasDate(df_immigration[i])
           THEN again.imm = Outcome("TypeError", <<>>)
           ELSE again.imm = Outcome("none", df_immigration)

\* a second run over two cleaned rows, one of them dated, and cleaned temperatures
C7_Witness ==
    /\ pc = "renormalized"
    /\ Len(df_immigration) = 2
    /\ \E i \in 1..2 : HasDate(df_immigration[i])
    /\ \E i \in 1..2 : ~HasDate(df_immigration[i])
    /\ Len(arg_temperature) > Len(df_temperature)
    /\ Len(df_temperature) > 0

\* a second run over cleaned rows without any date: it succeeds
C7_WitnessNoDate ==
    /\ pc = "renormalized"
    /\ Len(df_immigration) = 2
    /\ again.imm.err = "none"

----------------------------------------------------------------------------
(* fetch_sas_key_values: the label decoder and the code enrichment *)

\* whether sub occurs in s at position i
OccursAt(s, sub, i) ==
    i + Len(sub) - 1 <= Len(s) /\ SubSeq(s, i, i + Len(sub) - 1) = sub

\* str.index(sub), counted from 1; 0 where Python raises ValueError
IndexOf(s, sub) ==
    LET hits == {i \in 1..Len(s) : OccursAt(s, sub, i)}
    IN  IF hits = {} THEN 0 ELSE CHOOSE i \in hits : \A j \in hits : i <= j

\* str.replace(c, '') of one character
RemoveChar(s, c) == SelectSeq(s, LAMBDA x : x # c)

RECURSIVE Split(_, _)
\* str.split(c) on one character: one more part than there are separators
Split(s, c) ==
    LET i == IndexOf(s, <<c>>)
    IN  IF i = 0 THEN <<s>>
        ELSE <<SubSeq(s, 1, i - 1)>> \o Split(SubSeq(s, i + 1, Len(s)), c)

Whitespace == {" ", "\t", "\n", "\r"}

RECURSIVE LStrip(_)
LStrip(s) == IF s # <<>> /\ Head(s) \in Whitespace THEN LStrip(Tail(s)) ELSE s

RECURSIVE RStrip(_)
RStrip(s) == IF s # <<>> /\ s[Len(s)] \in Whitespace
             THEN RStrip(SubSeq(s, 1, Len(s) - 1)) ELSE s

\* str.strip()
Strip(s) == LStrip(RStrip(s))

\* dict(pairs): the keys of the pairs, each with the value of its last pair
DictOf(pairs) ==
    [k \in {pairs[i][1] : i \in 1..Len(pairs)} |->
        pairs[CHOOSE i \in 1..Len(pairs) :
                  pairs[i][1] = k /\ \A j \in (i + 1)..Len(pairs) : pairs[j][1] # k][2]]

\* f_content[f_content.index(idx):]
FromMarker(f_content, idx) == SubSeq(f_content, IndexOf(f_content, idx), Len(f_content))

\* whether code_mapper raises ValueError: the marker, or a semicolon after it,
\* is not in the text
code_mapper_raises(f_content, idx) ==
    \/ IndexOf(f_content, idx) = 0
    \/ IndexOf(FromMarker(f_content, idx), <<";">>) = 0

\* the lines of the block: from the marker up to the first semicolon after it,
\* the quotes removed
BlockLines(f_content, idx) ==
    LET f_content2 == FromMarker(f_content, idx)
        block == SubSeq(f_content2, 1, IndexOf(f_content2, <<";">>) - 1)
        lines == Split(block, "\n")
    IN  [i \in 1..Len(lines) |-> RemoveChar(lines[i], "'")]

\* a split at the first '=' only
SplitEq_AtFirst(line) ==
    LET i == IndexOf(line, <<"=">>)
    IN  IF i = 0 THEN <<line>> ELSE <<SubSeq(line, 1, i - 1), SubSeq(line, i + 1, Len(line))>>

\* the parts a line splits into
SplitEq(line) == Split(line, "=")

code_mapper(f_content, idx) ==
    LET lines == BlockLines(f_content, idx)
        dic == [i \in 1..(Len(lines) - 1) |-> SplitEq(lines[i + 1])]
        two == SelectSeq(dic, LAMBDA i : Len(i) = 2)
    IN  DictOf([i \in 1..Len(two) |-> <<Strip(two[i][1]), Strip(two[i][2])>>])

M_i94cntyl == <<"i", "9", "4", "c", "n", "t", "y", "l">>
M_i94model == <<"i", "9", "4", "m", "o", "d", "e", "l">>
M_i94addrl == <<"i", "9", "4", "a", "d", "d", "r", "l">>

i94visa == (<<"1">> :> <<"B", "u", "s", "i", "n", "e", "s", "s">>) @@ (<<"2">> :> <<"P", "l", "e", "a", "s", "u", "r", "e">>) @@ (<<"3">> :> <<"S", "t", "u", "d", "e", "n", "t">>)

\* whether s reads as an integer: an optional sign, digits, and an optional
\* fraction that the cast drops
IsIntLiteral(s) ==
    LET t == Strip(s)
        u == IF t # <<>> /\ Head(t) \in {"-", "+"} THEN Tail(t) ELSE t
        dot == IndexOf(u, <<".">>)
        whole == IF dot = 0 THEN u ELSE SubSeq(u, 1, dot - 1)
        frac == IF dot = 0 THEN <<>> ELSE SubSeq(u, dot + 1, Len(u))
    IN  /\ whole # <<>>
        /\ \A i \in 1..Len(whole) : IsDigit(whole[i])
        /\ \A i \in 1..Len(frac) : IsDigit(frac[i])

IntLiteralValue(s) ==
    LET t == Strip(s)
        neg == t # <<>> /\ Head(t) = "-"
        u == IF t # <<>> /\ Head(t) \in {"-", "+"} THEN Tail(t) ELSE t
        dot == IndexOf(u, <<".">>)
        whole == IF dot = 0 THEN u ELSE SubSeq(u, 1, dot - 1)
    IN  IF neg THEN 0 - StrToNat(whole) ELSE StrToNat(whole)

\* Column.cast("int"): a double is truncated towards zero, a string that does
\* not read as a number becomes null
CastInt(c) ==
    CASE c.t = "null" -> Null
      [] c.t = "int" -> c
      [] c.t = "double" ->
            LET n == NumOf(c)
            IN  IntCell(IF n < 0 THEN 0 - ((0 - n) \div 10) ELSE n \div 10)
      [] c.t = "str" -> IF IsIntLiteral(c.v) THEN IntCell(IntLiteralValue(c.v)) ELSE Null

\* the implicit cast of a lookup key to the map's key type, string
CastString(c) == c.v

\* Column.getItem(key) on a map<string,string>: null for a null key and for a
\* key the map does not hold
GetItem(mapping, key) ==
    IF IsNull(key) THEN Null
    ELSE IF CastString(key) \in DOMAIN mapping THEN StrCell(mapping[CastString(key)])
    ELSE Null

int_cols == {"cicid", "i94cit", "i94res", "i94mode", "i94visa"}

CastRow(row) == [f \in DOMAIN row |-> IF f \in int_cols THEN CastInt(row[f]) ELSE row[f]]

\* the residence label looked up with the citizenship code
ValueColumns_ResFromCit(row, cit_res, mode, addr) ==
    [i94cit_value |-> GetItem(cit_res, row.i94cit),
     i94res_value |-> GetItem(cit_res, row.i94cit),
     i94mode_value |-> GetItem(mode, row.i94mode),
     i94addr_value |-> GetItem(addr, row.i94addr),
     i94visa_value |-> GetItem(i94visa, row.i94visa)]

\* the value columns added to a row
ValueColumns(row, cit_res, mode, addr) ==
    [i94cit_value |-> GetItem(cit_res, row.i94cit),
     i94res_value |-> GetItem(cit_res, row.i94res),
     i94mode_value |-> GetItem(mode, row.i94mode),
     i94addr_value |-> GetItem(addr, row.i94addr),
     i94visa_value |-> GetItem(i94visa, row.i94visa)]

EnrichRow(row, cit_res, mode, addr) ==
    LET r == CastRow(row) IN r @@ ValueColumns(r, cit_res, mode, addr)

\* f.read().replace('\t', '')
ReadLabels(file) == RemoveChar(file.v, "\t")

\* df_immigration = fetch_sas_key_values(labels_fp, df_immigration)
FetchSasKeyValues ==
    /\ pc = "fetch"
    /\ arg_immigration' = df_immigration
    /\ IF fs.labels = NoFile
       THEN /\ pc' = "aborted" /\ err' = "FileNotFoundError"
            /\ UNCHANGED <<df_immigration, i94cit_res, i94mode, i94addr>>
       ELSE LET f_content == ReadLabels(fs.labels)
            IN  IF \E idx \in {M_i94cntyl, M_i94model, M_i94addrl} :
                       code_mapper_raises(f_content, idx)
                THEN /\ pc' = "aborted" /\ err' = "ValueError"
                     /\ UNCHANGED <<df_immigration, i94cit_res, i94mode, i94addr>>
                ELSE /\ i94cit_res' = code_mapper(f_content, M_i94cntyl)
                     /\ i94mode' = code_mapper(f_content, M_i94model)
                     /\ i94addr' = code_mapper(f_content, M_i94addrl)
                     /\ df_immigration' =
                            MapRows(df_immigration,
                                    LAMBDA r : EnrichRow(r, i94cit_res', i94mode', i94addr'))
                     /\ pc' = "clean_imm" /\ err' = err
    /\ UNCHANGED <<fs, df_temperature, df_demographics, df_airport_codes,
                   calendar_dim, country_dim, us_airport_dim, us_demographics_dim,
                   immigration_fact, written, arg_temperature, again>>

----------------------------------------------------------------------------
(* Inputs of fetch_sas_key_values *)

MaxLines == 3

File(content) == [t |-> "file", v |-> content]

\* the entry lines a block is drawn from: well-formed ones, one with spaces
\* around its parts, one whose label holds an '=', one without '=', one that
\* repeats a code, an empty one
EntryLines ==
    {<<"'", "1", "'", "=", "'", "F", "o", "o", "'">>, <<"'", "2", "'", "=", "'", "B", "a", "r", "'">>, <<" ", "3", " ", "=", " ", " ", "'", "B", "a", "z", "'", " ">>, <<"4", "=", "'", "a", "=", "b", "'">>, <<"j", "u", "n", "k">>, <<"'", "1", "'", "=", "'", "D", "u", "p", "'">>, <<>>}

RECURSIVE JoinLines(_)
JoinLines(lines) ==
    IF lines = <<>> THEN <<>> ELSE Head(lines) \o <<"\n">> \o JoinLines(Tail(lines))

ModeBlock == <<"v", "a", "l", "u", "e", " ", "i", "9", "4", "m", "o", "d", "e", "l", "\n", "\t", "1", " ", "=", " ", "'", "A", "i", "r", "'", "\n", "\t", "2", " ", "=", " ", "'", "S", "e", "a", "'", "\n", "\t", "9", " ", "=", " ", "'", "N", "o", "t", " ", "r", "e", "p", "o", "r", "t", "e", "d", "'", " ", ";", "\n">>

AddrBlock == <<"v", "a", "l", "u", "e", " ", "i", "9", "4", "a", "d", "d", "r", "l", "\n", "\t", "'", "N", "Y", "'", "=", "'", "N", "E", "W", " ", "Y", "O", "R", "K", "'", "\n", "\t", "'", "C", "A", "'", "=", "'", "C", "A", "L", "I", "F", "O", "R", "N", "I", "A", "'", "\n", ";", "\n">>

CntylBlock(lines) == <<"/", "*", " ", "I", "9", "4", "C", "I", "T", " ", "*", "/", "\n", " ", " ", "v", "a", "l", "u", "e", " ", "i", "9", "4", "c", "n", "t", "y", "l", "\n">> \o JoinLines(lines) \o <<";", "\n">>

LabelsText(lines) == CntylBlock(lines) \o ModeBlock \o AddrBlock

\* a raw immigration record, as read from the parquet files
RawRow(cicid, cit, res, mode, visa, addr) ==
    [cicid |-> cicid, i94cit |-> cit, i94res |-> res, i94mode |-> mode,
     i94visa |-> visa, i94port |-> Null, i94addr |-> addr,
     arrdate |-> Null, depdate |-> Null, visapost |-> Null,
     occup |-> Null, entdepu |-> Null, insnum |-> Null]

\* raw codes: absent, 1.0, 2.5, 99.0, the text x, the text 1
RawCodes == {Null, DblCell(10), DblCell(25), DblCell(990), StrCell(<<"x">>), StrCell(<<"1">>)}

FetchRows ==
    {RawRow(DblCell(10), cit, rest[1], rest[2], rest[3], rest[4]) :
        cit \in RawCodes,
        rest \in {<<Null, DblCell(10), DblCell(20), StrCell(<<"N", "Y">>)>>,
                  <<DblCell(20), DblCell(30), DblCell(70), StrCell(<<"Z", "Z">>)>>}}

FetchSample ==
    <<RawRow(DblCell(10), DblCell(10), DblCell(20), DblCell(10), DblCell(20), StrCell(<<"N", "Y">>)),
      RawRow(DblCell(20), DblCell(40), Null, DblCell(30), Null, StrCell(<<"Z", "Z">>))>>

\* fetch_sas_key_values, entered with a readable label file
InitFetch ==
    /\ pc = "fetch"
    /\ err = "none"
    /\ \/ /\ \E lines \in SeqUpTo(EntryLines, MaxLines) :
                fs = [NoFs EXCEPT !.labels = File(LabelsText(lines))]
          /\ df_immigration = FetchSample
       \/ /\ \E lines \in {<<>>, <<<<"'", "1", "'", "=", "'", "F", "o", "o", "'">>, <<"'", "2", "'", "=", "'", "B", "a", "r", "'">>>>} :
                fs = [NoFs EXCEPT !.labels = File(LabelsText(lines))]
          /\ df_immigration \in SeqUpTo(FetchRows, MaxRows)
    /\ df_temperature = <<>>
    /\ df_demographics = <<>>
    /\ df_airport_codes = <<>>
    /\ i94cit_res = NoTables /\ i94mode = NoTables /\ i94addr = NoTables
    /\ calendar_dim = <<>> /\ country_dim = <<>> /\ us_airport_dim = <<>>
    /\ us_demographics_dim = <<>> /\ immigration_fact = <<>>
    /\ written = <<>>
    /\ arg_immigration = <<>> /\ arg_temperature = <<>>
    /\ again = NoAgain

NextFetch == FetchSasKeyValues

SpecFetch == InitFetch /\ [][NextFetch]_vars

----------------------------------------------------------------------------
(* fetch_sas_key_values: properties *)

Fetched == pc = "clean_imm"

\* the lines after the header line, up to the first semicolon after the marker
EntryLinesOf(idx) == Tail(BlockLines(ReadLabels(fs.labels), idx))

CountEq(line) == Len(SelectSeq(line, LAMBDA c : c = "="))

CodeOf(line) == Strip(SubSeq(line, 1, IndexOf(line, <<"=">>) - 1))

LabelOf(line) == Strip(SubSeq(line, IndexOf(line, <<"=">>) + 1, Len(line)))

\* dic holds, for the lines that contribute, the pair (code, label) cut at the
\* first '=' of the line, a later line replacing an earlier one with its code
IsMappingOf(dic, lines, Contributes(_)) ==
    LET used == {i \in 1..Len(lines) : Contributes(lines[i])}
    IN  /\ DOMAIN dic = {CodeOf(lines[i]) : i \in used}
        /\ \A i \in used :
              (\A j \in used : j > i => CodeOf(lines[j]) # CodeOf(lines[i]))
                  => dic[CodeOf(lines[i])] = LabelOf(lines[i])

ExampleBlock == <<"i", "9", "4", "c", "n", "t", "y", "l", "\n", "'", "1", "'", "=", "'", "F", "o", "o", "'", "\n", "'", "2", "'", "=", "'", "B", "a", "r", "'", "\n", ";">>

ExampleResult == (<<"1">> :> <<"F", "o", "o">>) @@ (<<"2">> :> <<"B", "a", "r">>)

\* C5 (as claimed): each decoded table holds the pairs of all the lines that
\* have an '=', cut at the first '='; the example block decodes as stated.
C5_Decoder_Original ==
    /\ code_mapper(ExampleBlock, M_i94cntyl) = ExampleResult
    /\ Fetched =>
          /\ IsMappingOf(i94cit_res, EntryLinesOf(M_i94cntyl), LAMBDA l : CountEq(l) >= 1)
          /\ IsMappingOf(i94mode, EntryLinesOf(M_i94model), LAMBDA l : CountEq(l) >= 1)
          /\ IsMappingOf(i94addr, EntryLinesOf(M_i94addrl), LAMBDA l : CountEq(l) >= 1)

\* C5 (amended): each decoded table holds the pairs of the lines that have
\* exactly one '='; a line with no '=' and a line with two or more (a label
\* that holds an '=') are skipped; the example block decodes as stated.
C5_Decoder ==
    /\ code_mapper(ExampleBlock, M_i94cntyl) = ExampleResult
    /\ Fetched =>
          /\ IsMappingOf(i94cit_res, EntryLinesOf(M_i94cntyl), LAMBDA l : CountEq(l) = 1)
          /\ IsMappingOf(i94mode, EntryLinesOf(M_i94model), LAMBDA l : CountEq(l) = 1)
          /\ IsMappingOf(i94addr, EntryLinesOf(M_i94addrl), LAMBDA l : CountEq(l) = 1)

\* a decoded block with a line whose label holds an '=', a line without '='
\* and a well-formed line
C5_Witness ==
    /\ Fetched
    /\ \E i \in 1..Len(EntryLinesOf(M_i94cntyl)) : CountEq(EntryLinesOf(M_i94cntyl)[i]) = 2
    /\ \E i \in 1..Len(EntryLinesOf(M_i94cntyl)) :
          /\ CountEq(EntryLinesOf(M_i94cntyl)[i]) = 0
          /\ EntryLinesOf(M_i94cntyl)[i] # <<>>
    /\ DOMAIN i94cit_res # {}

\* the label a table holds for an integer code, null when it holds none
LabelFor(table, code) ==
    IF IsNull(code) THEN Null
    ELSE IF \E k \in DOMAIN table : k = IntToStr(NumOf(code))
    THEN StrCell(table[CHOOSE k \in DOMAIN table : k = IntToStr(NumOf(code))])
    ELSE Null

\* C10: the enrichment returns the rows it was given, one for one, with the
\* codes coerced to integers, and in each value column the label of the
\* coerced code, or null when the code is null, unparseable or not in the table.
C10_Enrichment ==
    /\ CastInt(StrCell(<<"x">>)) = Null
    /\ CastInt(DblCell(25)) = IntCell(2)
    /\ (pc = "fetch" \/ Fetched) /\ err = "none"
    /\ Fetched =>
          /\ Len(df_immigration) = Len(arg_immigration)
          /\ \A i \in 1..Len(arg_immigration) :
                LET in == arg_immigration[i]
                    out == df_immigration[i]
                IN  /\ \A f \in (DOMAIN in) \ int_cols : out[f] = in[f]
                    /\ \A f \in int_cols : out[f] = CastInt(in[f])
                    /\ out.i94cit_value = LabelFor(i94cit_res, CastInt(in.i94cit))
                    /\ out.i94res_value = LabelFor(i94cit_res, CastInt(in.i94res))
                    /\ out.i94mode_value = LabelFor(i94mode, CastInt(in.i94mode))
                    /\ out.i94visa_value = LabelFor(i94visa, CastInt(in.i94visa))

\* an enrichment of two rows: one with a code the table holds, one with a code
\* that does not parse, a code the table lacks or no code
C10_Witness ==
    /\ Fetched
    /\ Len(df_immigration) = 2
    /\ \E i \in 1..2 : ~IsNull(df_immigration[i].i94cit_value)
    /\ \E i \in 1..2 : arg_immigration[i].i94cit = StrCell(<<"x">>)
    /\ \E i \in 1..2 : ~IsNull(df_immigration[i].i94res)
                        /\ IsNull(df_immigration[i].i94mode_value)
                        /\ ~IsNull(df_immigration[i].i94mode)

----------------------------------------------------------------------------
(* process_tables: the SQL functions it uses *)

\* a = b in SQL: not true when either side is null
SqlEq(a, b) == ~IsNull(a) /\ ~IsNull(b) /\ a = b

\* the <<year, month, day>> of a 'YYYY-MM-DD' string cast to a date
ParseDate(c) ==
    <<StrToNat(SubSeq(c.v, 1, 4)), StrToNat(SubSeq(c.v, 6, 7)), StrToNat(SubSeq(c.v, 9, 10))>>

DayOfYear(ymd) == ymd2ord(ymd[1], ymd[2], ymd[3]) - ymd2ord(ymd[1], 1, 1) + 1

\* dayofweek(): 1 is Sunday, 7 is Saturday; ordinal 1 is a Monday
DayOfWeek(ymd) == (ymd2ord(ymd[1], ymd[2], ymd[3]) % 7) + 1

\* the ISO-8601 weeks of a year: 53 when it starts, or the one before it
\* ends, at the right weekday
WeeksInYear(y) ==
    LET P(n) == (n + n \div 4 - n \div 100 + n \div 400) % 7
    IN  IF P(y) = 4 \/ P(y - 1) = 3 THEN 53 ELSE 52

\* weekofyear(): the ISO-8601 week number
WeekOfYear(ymd) ==
    LET isoweekday == ((ymd2ord(ymd[1], ymd[2], ymd[3]) - 1) % 7) + 1
        w == (DayOfYear(ymd) - isoweekday + 10) \div 7
    IN  IF w < 1 THEN WeeksInYear(ymd[1] - 1)
        ELSE IF w > WeeksInYear(ymd[1]) THEN 1
        ELSE w

\* cast(double as string) of a non-negative double held in tenths
DoubleToStr(c) == NatToStr(NumOf(c) \div 10) \o <<".">> \o NatToStr(NumOf(c) % 10)

\* right(s, 2)
Right2(c) == IF IsNull(c) THEN Null
             ELSE StrCell(SubSeq(c.v, IF Len(c.v) > 2 THEN Len(c.v) - 1 ELSE 1, Len(c.v)))

\* min() and max() of a column: null when no value is not null
MinNum(cells) ==
    LET s == {NumOf(c) : c \in {x \in cells : ~IsNull(x)}}
    IN  IF s = {} THEN 0 ELSE CHOOSE m \in s : \A n \in s : m <= n

MaxNum(cells) ==
    LET s == {NumOf(c) : c \in {x \in cells : ~IsNull(x)}}
    IN  IF s = {} THEN 0 ELSE CHOOSE m \in s : \A n \in s : m >= n

AllNullCells(cells) == \A c \in cells : IsNull(c)

RECURSIVE SumNum(_)
\* sum() of a column, the nulls skipped
SumNum(cells) ==
    IF cells = <<>> THEN 0
    ELSE (IF IsNull(Head(cells)) THEN 0 ELSE NumOf(Head(cells))) + SumNum(Tail(cells))

\* the characters of the model, in code-point order
CodePoints == <<"\t", "\n", "\r", " ", "'", "*", "-", ".", "/">> \o Digits \o <<";", "=">>
                  \o Upper \o <<"_">> \o Lower

CharOrd(c) == CHOOSE i \in 1..Len(CodePoints) : CodePoints[i] = c

RECURSIVE StrLess(_, _)
\* a < b for strings
StrLess(a, b) ==
    IF b = <<>> THEN FALSE
    ELSE IF a = <<>> THEN TRUE
    ELSE IF Head(a) = Head(b) THEN StrLess(Tail(a), Tail(b))
    ELSE CharOrd(Head(a)) < CharOrd(Head(b))

\* ascending order of a column: nulls first
CellLess(a, b) ==
    IF IsNull(b) THEN FALSE
    ELSE IF IsNull(a) THEN TRUE
    ELSE StrLess(a.v, b.v)

Numberings(n) == {p \in [1..n -> 1..n] : \A i, j \in 1..n : p[i] = p[j] => i = j}

\* rank(): rows with equal keys share a number
RowNumbers_Rank(keys) ==
    {[i \in 1..Len(keys) |->
         1 + Cardinality({j \in 1..Len(keys) : CellLess(keys[j], keys[i])})]}

\* row_number() over (order by <key>): the numberings 1..n of the rows that
\* follow the order of the keys; rows with equal keys are numbered in any order
RowNumbers(keys) ==
    {p \in Numberings(Len(keys)) :
        \A i, j \in 1..Len(keys) : CellLess(keys[i], keys[j]) => p[i] < p[j]}

\* the key of every row when the ordering expression is a string literal
ConstantKeys(rows, literal) == [i \in 1..Len(rows) |-> StrCell(literal)]

----------------------------------------------------------------------------
(* process_tables: the five relations *)

CalendarRow(row) ==
    IF IsNull(row.arrdate)
    THEN [date |-> Null, year |-> Null, month |-> Null, week |-> Null,
          day |-> Null, weekday |-> Null]
    ELSE LET ymd == ParseDate(row.arrdate)
         IN  [date |-> row.arrdate, year |-> IntCell(ymd[1]), month |-> IntCell(ymd[2]),
              week |-> IntCell(WeekOfYear(ymd)), day |-> IntCell(DayOfYear(ymd)),
              weekday |-> IntCell(DayOfWeek(ymd))]

\* select distinct arrdate as date, year(arrdate), ... from df_immigration
BuildCalendarDim(imm) == DropDuplicateRows(MapRows(imm, CalendarRow))

\* df_temperature.select(col("Country")).distinct()
DistinctCountries(temp) ==
    DropDuplicateRows(MapRows(temp, LAMBDA r : [Country |-> r.Country]))

\* the groups of country_dim before the surrogate key is assigned
CountryGroups(temp) ==
    MapRows(DistinctCountries(temp),
            LAMBDA c :
                LET joined == {temp[i].AverageTemperature :
                                   i \in {k \in 1..Len(temp) : SqlEq(c.Country, temp[k].Country)}}
                IN  [country_name |-> c.Country,
                     country_avg_temp_min |->
                         IF AllNullCells(joined) THEN Null ELSE DblCell(MinNum(joined)),
                     country_avg_temp_max |->
                         IF AllNullCells(joined) THEN Null ELSE DblCell(MaxNum(joined))])

\* a relation with the surrogate key column id numbered by p
WithKey(rows, id, p) ==
    [i \in 1..Len(rows) |-> rows[i] @@ (id :> IntCell(p[i]))]

\* row_number() over (ORDER BY "c.Country"): the ordering expression is a
\* string literal
CountryKeyOrder(groups) == RowNumbers(ConstantKeys(groups, <<"c", ".", "C", "o", "u", "n", "t", "r", "y">>))

BuildCountryDim(temp, p) == WithKey(CountryGroups(temp), "country_id", p)

ContinentName(c) ==
    CASE c = StrCell(<<"N", "A">>) -> StrCell(<<"N", "o", "r", "t", "h", " ", "A", "m", "e", "r", "i", "c", "a">>)
      [] c = StrCell(<<"A", "F">>) -> StrCell(<<"A", "f", "r", "i", "c", "a">>)
      [] c = StrCell(<<"A", "N">>) -> StrCell(<<"A", "n", "t", "a", "r", "c", "t", "i", "c", "a">>)
      [] c = StrCell(<<"A", "S">>) -> StrCell(<<"A", "s", "i", "a">>)
      [] c = StrCell(<<"E", "U">>) -> StrCell(<<"E", "u", "r", "o", "p", "e">>)
      [] c = StrCell(<<"O", "C">>) -> StrCell(<<"O", "c", "e", "a", "n", "i", "a">>)
      [] c = StrCell(<<"S", "A">>) -> StrCell(<<"S", "o", "u", "t", "h", " ", "A", "m", "e", "r", "i", "c", "a">>)
      [] OTHER -> Null

AirportRows(air) ==
    MapRows(air,
            LAMBDA r : [airport_code |-> r.iata_code, airport_type |-> r.type,
                        airport_name |-> r.name, continent_code |-> r.continent,
                        continent_name |-> ContinentName(r.continent),
                        country_code |-> r.iso_country, state_code |-> Right2(r.iso_region),
                        municipality |-> r.municipality])

\* row_number() over (order by "iata_code"): a string literal again
AirportKeyOrder(rows) == RowNumbers(ConstantKeys(rows, <<"i", "a", "t", "a", "_", "c", "o", "d", "e">>))

BuildAirportDim(air, p) == WithKey(AirportRows(air), "airport_id", p)

RangeStr(cells) ==
    IF AllNullCells(cells) THEN Null
    ELSE StrCell(DoubleToStr(DblCell(MinNum(cells))) \o <<" ", "-", " ">> \o DoubleToStr(DblCell(MaxNum(cells))))

\* the groups of us_demographics_dim: one per (State Code, State)
DemographicsGroups(demo) ==
    MapRows(DropDuplicateRows(MapRows(demo, LAMBDA r : Key(r, {"StateCode", "State"}))),
            LAMBDA g :
                LET members == SelectSeq(demo, LAMBDA r : Key(r, {"StateCode", "State"}) = g)
                IN  [state_code |-> g.StateCode,
                     state_name |-> g.State,
                     median_age_range |-> RangeStr({members[i].MedianAge : i \in 1..Len(members)}),
                     population |->
                         IF \A i \in 1..Len(members) : IsNull(members[i].TotalPopulation)
                         THEN Null
                         ELSE IntCell(SumNum(MapRows(members, LAMBDA r : r.TotalPopulation)))])

\* row_number() over (order by `State Code`): a column
DemographicsKeyOrder(groups) == RowNumbers(MapRows(groups, LAMBDA g : g.state_code))

BuildDemographicsDim(demo, p) == WithKey(DemographicsGroups(demo), "state_id", p)

\* the values of column id on the rows of dim that a left join matches: a
\* single null when it matches none
LeftJoin(dim, id, Match(_)) ==
    LET hits == SelectSeq(dim, Match)
    IN  IF hits = <<>> THEN <<Null>> ELSE MapRows(hits, LAMBDA r : r[id])

\* the residence join on the residence name
ResidenceJoinName_Residence(i) == i.i94res_value

\* the country name the residence join compares with country_dim
ResidenceJoinName(i) == i.i94cit_value

\* the fact rows of one immigration record; src is bookkeeping of the model:
\* the position of the record in df_immigration
FactRowsOf(i, k, countries, airports, states) ==
    LET birth == LeftJoin(countries, "country_id",
                          LAMBDA c : SqlEq(LowerStr(i.i94cit_value), LowerStr(c.country_name)))
        res == LeftJoin(countries, "country_id",
                        LAMBDA c : SqlEq(LowerStr(ResidenceJoinName(i)), LowerStr(c.country_name)))
        p == LeftJoin(airports, "airport_id", LAMBDA a : SqlEq(i.i94port, a.airport_code))
        d == LeftJoin(states, "state_id", LAMBDA s : SqlEq(i.i94addr, s.state_code))
    IN  Flatten([b \in 1..Len(birth) |-> Flatten([r \in 1..Len(res) |->
            Flatten([a \in 1..Len(p) |-> [s \in 1..Len(d) |->
                [birth_country_id |-> birth[b], res_country_id |-> res[r],
                 airport_id |-> p[a], state_id |-> d[s],
                 arrival_date |-> i.arrdate, departure_date |-> i.depdate,
                 visa_type_code |-> i.i94visa, visa_type_desc |-> i.i94visa_value,
                 visa_post |-> i.visapost,
                 arrival_mode_code |-> i.i94mode, arrival_mode_desc |-> i.i94mode_value,
                 src |-> k]]])])])

BuildImmigrationFact(imm, countries, airports, states) ==
    Flatten([k \in 1..Len(imm) |-> FactRowsOf(imm[k], k, countries, airports, states)])

\* process_tables, up to the first write: the five relations.  The column
\* record_id (monotonically_increasing_id) is left out.
ProcessTables ==
    /\ pc = "process"
    /\ calendar_dim' = BuildCalendarDim(df_immigration)
    /\ \E p \in CountryKeyOrder(CountryGroups(df_temperature)) :
          country_dim' = BuildCountryDim(df_temperature, p)
    /\ \E p \in AirportKeyOrder(AirportRows(df_airport_codes)) :
          us_airport_dim' = BuildAirportDim(df_airport_codes, p)
    /\ \E p \in DemographicsKeyOrder(DemographicsGroups(df_demographics)) :
          us_demographics_dim' = BuildDemographicsDim(df_demographics, p)
    /\ immigration_fact' =
           BuildImmigrationFact(df_immigration, country_dim', us_airport_dim',
                                us_demographics_dim')
    /\ pc' = "write_calendar_dim"
    /\ UNCHANGED <<err, fs, df_immigration, df_temperature, df_demographics,
                   df_airport_codes, i94cit_res, i94mode, i94addr, written,
                   arg_immigration, arg_temperature, again>>

\* <relation>.write.parquet(output_path + name, mode="overwrite")
Write(name, next) ==
    /\ pc = name
    /\ written' = Append(written, name)
    /\ pc' = next
    /\ UNCHANGED <<err, fs, df_immigration, df_temperature, df_demographics,
                   df_airport_codes, i94cit_res, i94mode, i94addr, calendar_dim,
                   country_dim, us_airport_dim, us_demographics_dim,
                   immigration_fact, arg_immigration, arg_temperature, again>>

WriteCalendarDim == Write("write_calendar_dim", "write_us_demographics_dim")

WriteDemographicsDim == Write("write_us_demographics_dim", "write_us_airport_dim")

WriteAirportDim == Write("write_us_airport_dim", "write_country_dim")

WriteCountryDim == Write("write_country_dim", "write_immigration_fact")

WriteImmigrationFact == Write("write_immigration_fact", "done")

----------------------------------------------------------------------------
(* Inputs of process_tables *)

MaxDimRows == 2

\* the subsets of S with at most n elements, each as a sequence
SubsetsUpTo(S, n) == {SetToSeq(T) : T \in {U \in SUBSET S : Cardinality(U) <= n}}

\* a cleaned, enriched immigration record
FactInput(cicid, arr, cit, cit_value, res, res_value, port, addr) ==
    [cicid |-> IntCell(cicid), i94cit |-> cit, i94res |-> res, i94mode |-> IntCell(1),
     i94visa |-> IntCell(2), i94port |-> port, i94addr |-> addr,
     arrdate |-> arr, depdate |-> Null, visapost |-> Null,
     i94cit_value |-> cit_value, i94res_value |-> res_value,
     i94mode_value |-> StrCell(<<"A", "i", "r">>), i94addr_value |-> Null,
     i94visa_value |-> StrCell(<<"P", "l", "e", "a", "s", "u", "r", "e">>)]

GERMANY == StrCell(<<"G", "E", "R", "M", "A", "N", "Y">>)
FRANCE == StrCell(<<"F", "R", "A", "N", "C", "E">>)

\* what the records of process_tables' input are drawn from, the cicid apart
FactInputKinds ==
    {<<StrCell(<<"1", "9", "6", "0", "-", "0", "1", "-", "0", "2">>), IntCell(1), GERMANY, IntCell(2), FRANCE, StrCell(<<"J", "F", "K">>), StrCell(<<"N", "Y">>)>>,
     <<Null, Null, Null, IntCell(1), GERMANY, Null, Null>>,
     <<StrCell(<<"1", "9", "6", "0", "-", "0", "1", "-", "0", "2">>), IntCell(1), GERMANY, IntCell(1), GERMANY, StrCell(<<"X", "X", "X">>), StrCell(<<"Z", "Z">>)>>}

\* cleaned immigration frames: the cicid of a row is its position
FactInputs(n) ==
    {[k \in 1..Len(kinds) |->
          FactInput(k, kinds[k][1], kinds[k][2], kinds[k][3], kinds[k][4], kinds[k][5],
                    kinds[k][6], kinds[k][7])] : kinds \in SeqUpTo(FactInputKinds, n)}

\* cleaned temperature rows: all different, none without a temperature
TableTempRows ==
    {TempRow(StrCell(<<"G", "e", "r", "m", "a", "n", "y">>), DblCell(155)), TempRow(StrCell(<<"G", "E", "R", "M", "A", "N", "Y">>), DblCell(200)),
     TempRow(StrCell(<<"F", "r", "a", "n", "c", "e">>), DblCell(100)), TempRow(Null, DblCell(50))}

TableTempSample == <<TempRow(StrCell(<<"G", "e", "r", "m", "a", "n", "y">>), DblCell(155))>>

AirportRow(iata, name, continent, country, region) ==
    [iata_code |-> iata, type |-> StrCell(<<"l", "a", "r", "g", "e", "_", "a", "i", "r", "p", "o", "r", "t">>), name |-> StrCell(name),
     continent |-> StrCell(continent), iso_country |-> StrCell(country),
     iso_region |-> StrCell(region), municipality |-> Null]

JFK == AirportRow(StrCell(<<"J", "F", "K">>), <<"K", "e", "n", "n", "e", "d", "y">>, <<"N", "A">>, <<"U", "S">>, <<"U", "S", "-", "N", "Y">>)
LAX == AirportRow(StrCell(<<"L", "A", "X">>), <<"L", "o", "s", " ", "A", "n", "g", "e", "l", "e", "s">>, <<"X", "X">>, <<"U", "S">>, <<"U", "S", "-", "C", "A">>)

TableAirportRows ==
    {JFK, AirportRow(StrCell(<<"J", "F", "K">>), <<"H", "e", "l", "i", "p", "o", "r", "t">>, <<"N", "A">>, <<"U", "S">>, <<"U", "S", "-", "N", "Y">>),
     AirportRow(Null, <<"F", "i", "e", "l", "d">>, <<"X", "X">>, <<"U", "S">>, <<"U", "S", "-", "T", "X">>)}

TableAirportSample == <<JFK>>

DemoRow(code, state, age, pop) ==
    [StateCode |-> code, State |-> StrCell(state), MedianAge |-> age, TotalPopulation |-> pop]

TableDemoRows ==
    {DemoRow(StrCell(<<"N", "Y">>), <<"N", "e", "w", " ", "Y", "o", "r", "k">>, DblCell(355), IntCell(100)),
     DemoRow(StrCell(<<"N", "Y">>), <<"N", "e", "w", " ", "Y", "o", "r", "k">>, DblCell(400), IntCell(50)),
     DemoRow(StrCell(<<"N", "Y">>), <<"N", "e", "w", " ", "Y", "o", "r", "k", " ", "S", "t", "a", "t", "e">>, Null, Null),
     DemoRow(StrCell(<<"C", "A">>), <<"C", "a", "l", "i", "f", "o", "r", "n", "i", "a">>, DblCell(300), IntCell(70))}

TableDemoSample == <<DemoRow(StrCell(<<"N", "Y">>), <<"N", "e", "w", " ", "Y", "o", "r", "k">>, DblCell(355), IntCell(100))>>

MainDemographics ==
    <<DemoRow(StrCell(<<"N", "Y">>), <<"N", "e", "w", " ", "Y", "o", "r", "k">>, DblCell(355), IntCell(100)),
      DemoRow(StrCell(<<"N", "Y">>), <<"N", "e", "w", " ", "Y", "o", "r", "k">>, DblCell(400), IntCell(50)),
      DemoRow(StrCell(<<"C", "A">>), <<"C", "a", "l", "i", "f", "o", "r", "n", "i", "a">>, DblCell(300), IntCell(70))>>

\* process_tables, entered with cleaned frames: the immigration frame and one
\* of the three other frames vary, the other two are the samples
InitTables ==
    /\ pc = "process"
    /\ err = "none"
    /\ fs = NoFs
    /\ df_immigration \in FactInputs(MaxRows)
    /\ \/ /\ df_temperature \in SubsetsUpTo(TableTempRows, MaxDimRows)
          /\ df_airport_codes = TableAirportSample
          /\ df_demographics = TableDemoSample
       \/ /\ df_temperature = TableTempSample
          /\ df_airport_codes \in SeqUpTo(TableAirportRows, MaxDimRows)
          /\ df_demographics = TableDemoSample
       \/ /\ df_temperature = TableTempSample
          /\ df_airport_codes = TableAirportSample
          /\ df_demographics \in SeqUpTo(TableDemoRows, MaxDimRows)
    /\ i94cit_res = NoTables /\ i94mode = NoTables /\ i94addr = NoTables
    /\ calendar_dim = <<>> /\ country_dim = <<>> /\ us_airport_dim = <<>>
    /\ us_demographics_dim = <<>> /\ immigration_fact = <<>>
    /\ written = <<>>
    /\ arg_immigration = <<>> /\ arg_temperature = <<>>
    /\ again = NoAgain

NextTables ==
    \/ ProcessTables
    \/ WriteCalendarDim
    \/ WriteDemographicsDim
    \/ WriteAirportDim
    \/ WriteCountryDim
    \/ WriteImmigrationFact

SpecTables == InitTables /\ [][NextTables]_vars

----------------------------------------------------------------------------
(* process_tables: properties *)

Built == pc \in {"write_calendar_dim", "write_us_demographics_dim", "write_us_airport_dim",
                 "write_country_dim", "write_immigration_fact", "done"}

FactRowsFrom(k) == {i \in 1..Len(immigration_fact) : immigration_fact[i].src = k}

\* C2 (as claimed): immigration_fact holds exactly one row for every record of
\* the immigration frame, whatever the other frames hold.
C2_OneFactRowPerRecord ==
    Built => \A k \in 1..Len(df_immigration) : Cardinality(FactRowsFrom(k)) = 1

\* the rows of dim whose column col equals (in SQL) the value v
Matches(dim, col, v) == {j \in 1..Len(dim) : SqlEq(dim[j][col], v)}

AtLeastOne(n) == IF n = 0 THEN 1 ELSE n

\* what does hold: no record is dropped, and a record has as many fact rows as
\* the product of its matches in the four joins
C2_FactRowsAreProductOfMatches ==
    Built =>
        \A k \in 1..Len(df_immigration) :
            LET names == {j \in 1..Len(country_dim) :
                             SqlEq(LowerStr(country_dim[j].country_name),
                                   LowerStr(df_immigration[k].i94cit_value))}
            IN  Cardinality(FactRowsFrom(k)) =
                    AtLeastOne(Cardinality(names)) * AtLeastOne(Cardinality(names))
                    * AtLeastOne(Cardinality(Matches(us_airport_dim, "airport_code",
                                                     df_immigration[k].i94port)))
                    * AtLeastOne(Cardinality(Matches(us_demographics_dim, "state_code",
                                                     df_immigration[k].i94addr)))

Unique(dim, id) == \A i, j \in 1..Len(dim) : dim[i][id] = dim[j][id] => i = j

\* C6: the surrogate keys of country_dim, us_airport_dim and us_demographics_dim
\* are unique in their table, and calendar_dim has at most one row per date.
C6_SurrogateKeysUnique ==
    Built =>
        /\ Unique(country_dim, "country_id")
        /\ Unique(us_airport_dim, "airport_id")
        /\ Unique(us_demographics_dim, "state_id")
        /\ Unique(calendar_dim, "date")

\* two states with one state code, so that the ordering expression ties as it
\* does on the other two tables, and two records with one date
C6_Witness ==
    /\ Built
    /\ Len(country_dim) = 1 /\ Len(us_airport_dim) = 1 /\ Len(us_demographics_dim) = 2
    /\ us_demographics_dim[1].state_code = us_demographics_dim[2].state_code
    /\ Len(df_immigration) = 2 /\ Len(calendar_dim) = 1
    /\ ~IsNull(calendar_dim[1].date)

\* two airports, numbered under an ordering expression that is a literal
C6_WitnessAirports ==
    /\ Built
    /\ Len(us_airport_dim) = 2
    /\ us_airport_dim[1].airport_id = IntCell(2)

OneRowPerLowerName ==
    \A i, j \in 1..Len(country_dim) :
        SqlEq(LowerStr(country_dim[i].country_name), LowerStr(country_dim[j].country_name))
            => i = j

\* the key of the country_dim row with the given name, case ignored; null
\* when there is none
CountryIdOf(name) ==
    LET hits == {j \in 1..Len(country_dim) :
                    SqlEq(LowerStr(country_dim[j].country_name), LowerStr(name))}
    IN  IF hits = {} THEN Null ELSE country_dim[CHOOSE j \in hits : TRUE].country_id

----------------------------------------------------------------------------
(* main(): load_dataframes, and the run as a whole *)

DataFiles == {"immigration", "temperature", "demographics", "airport"}

\* the files are opened only when the relations are written
MissingSources_Unchecked(files) == {}

\* the source files spark.read cannot open
MissingSources(files) == {f \in DataFiles : files[f] = NoFile}

\* df_airport_codes.filter(df_airport_codes.iso_country == 'US')
OnlyUS(air) == SelectSeq(air, LAMBDA r : SqlEq(r.iso_country, StrCell(<<"U", "S">>)))

\* df_immigration, df_temperature, df_demographics, df_airport_codes = load_dataframes(...)
LoadDataframes ==
    /\ pc = "load"
    /\ IF MissingSources(fs) # {}
       THEN /\ pc' = "aborted" /\ err' = "AnalysisException"
            /\ UNCHANGED <<df_immigration, df_temperature, df_demographics, df_airport_codes>>
       ELSE /\ df_immigration' = fs.immigration.v
            /\ df_temperature' = fs.temperature.v
            /\ df_demographics' = fs.demographics.v
            /\ df_airport_codes' = OnlyUS(fs.airport.v)
            /\ pc' = "fetch" /\ err' = err
    /\ UNCHANGED <<fs, i94cit_res, i94mode, i94addr, calendar_dim, country_dim,
                   us_airport_dim, us_demographics_dim, immigration_fact, written,
                   arg_immigration, arg_temperature, again>>

\* the label files of a run: a complete one, one without each marker in turn,
\* one whose last block has no semicolon, none
CountryBlock == CntylBlock(<<<<" ", " ", " ", "1", " ", "=", " ", " ", "'", "G", "E", "R", "M", "A", "N", "Y", "'">>, <<" ", " ", " ", "2", " ", "=", " ", " ", "'", "F", "R", "A", "N", "C", "E", "'">>>>)

UnclosedAddrBlock == <<"v", "a", "l", "u", "e", " ", "i", "9", "4", "a", "d", "d", "r", "l", "\n", "\t", "'", "N", "Y", "'", "=", "'", "N", "E", "W", " ", "Y", "O", "R", "K", "'", "\n">>

MainLabels ==
    {File(CountryBlock \o ModeBlock \o AddrBlock),
     File(ModeBlock \o AddrBlock),
     File(CountryBlock \o AddrBlock),
     File(CountryBlock \o ModeBlock),
     File(CountryBlock \o ModeBlock \o UnclosedAddrBlock),
     NoFile}

MainImmigration ==
    <<[RawRow(DblCell(10), DblCell(10), DblCell(20), DblCell(10), DblCell(20), StrCell(<<"N", "Y">>))
          EXCEPT !.arrdate = DblCell(205730), !.depdate = DblCell(205800),
                 !.i94port = StrCell(<<"J", "F", "K">>)],
      [RawRow(DblCell(10), DblCell(20), DblCell(20), DblCell(10), DblCell(10), StrCell(<<"C", "A">>))
          EXCEPT !.arrdate = DblCell(205730), !.i94port = StrCell(<<"L", "A", "X">>)],
      [RawRow(DblCell(20), DblCell(20), DblCell(10), DblCell(30), DblCell(30), Null)
          EXCEPT !.arrdate = DblCell(0), !.occup = StrCell(<<"S", "T", "U">>)],
      RawRow(Null, Null, Null, Null, Null, Null)>>

MainTemperature ==
    <<TempRow(StrCell(<<"G", "e", "r", "m", "a", "n", "y">>), DblCell(155)), TempRow(StrCell(<<"G", "e", "r", "m", "a", "n", "y">>), DblCell(155)),
      TempRow(StrCell(<<"F", "r", "a", "n", "c", "e">>), Null), TempRow(StrCell(<<"F", "r", "a", "n", "c", "e">>), DblCell(100))>>

MainAirports == <<JFK, LAX, AirportRow(StrCell(<<"L", "H", "R">>), <<"H", "e", "a", "t", "h", "r", "o", "w">>, <<"E", "U">>, <<"G", "B">>, <<"G", "B", "-", "E", "N", "G">>)>>

\* a run of main(): every source file is readable or not
Init ==
    /\ pc = "load"
    /\ err = "none"
    /\ \E present \in SUBSET DataFiles : \E labels \in MainLabels :
          fs = [immigration |-> IF "immigration" \in present THEN File(MainImmigration) ELSE NoFile,
                temperature |-> IF "temperature" \in present THEN File(MainTemperature) ELSE NoFile,
                demographics |-> IF "demographics" \in present THEN File(MainDemographics) ELSE NoFile,
                airport |-> IF "airport" \in present THEN File(MainAirports) ELSE NoFile,
                labels |-> labels]
    /\ df_immigration = <<>>
    /\ df_temperature = <<>>
    /\ df_demographics = <<>>
    /\ df_airport_codes = <<>>
    /\ i94cit_res = NoTables /\ i94mode = NoTables /\ i94addr = NoTables
    /\ calendar_dim = <<>> /\ country_dim = <<>> /\ us_airport_dim = <<>>
    /\ us_demographics_dim = <<>> /\ immigration_fact = <<>>
    /\ written = <<>>
    /\ arg_immigration = <<>> /\ arg_temperature = <<>>
    /\ again = NoAgain

Next ==
    \/ LoadDataframes
    \/ FetchSasKeyValues
    \/ CleanImmigrationData
    \/ CleanTemperatureData
    \/ ProcessTables
    \/ WriteCalendarDim
    \/ WriteDemographicsDim
    \/ WriteAirportDim
    \/ WriteCountryDim
    \/ WriteImmigrationFact

Spec == Init /\ [][Next]_vars

----------------------------------------------------------------------------
(* main(): properties *)

MarkerMissing ==
    /\ fs.labels # NoFile
    /\ \E idx \in {M_i94cntyl, M_i94model, M_i94addrl} : IndexOf(fs.labels.v, idx) = 0

\* a source file cannot be read, or a marker is not in the label file
ConfigurationError ==
    \/ \E f \in DataFiles \cup {"labels"} : fs[f] = NoFile
    \/ MarkerMissing

\* C8: a run whose configuration is in error never gets past load_dataframes
\* and fetch_sas_key_values: it has written no relation, it reaches the decoder
\* only when every data file was readable, and when it has stopped it has
\* stopped with an error; and no run that stopped with an error has written a
\* relation.
C8_NoWriteBeforeConfigurationError ==
    /\ ConfigurationError =>
          /\ written = <<>>
          /\ pc \in {"load", "fetch", "aborted"}
          /\ pc = "fetch" => \A f \in DataFiles : fs[f] # NoFile
          /\ pc = "aborted" => err \in {"AnalysisException", "FileNotFoundError", "ValueError"}
    /\ pc = "aborted" => written = <<>>

\* a run that every data file let through and that stopped in the decoder, a
\* marker missing, with nothing written
C8_Witness ==
    /\ pc = "aborted"
    /\ err = "ValueError"
    /\ MarkerMissing
    /\ \A f \in DataFiles : fs[f] # NoFile
    /\ written = <<>>

\* a run without configuration error writes the five relations, in this order
C8_WitnessCompleteRun ==
    /\ pc = "done"
    /\ written = <<"write_calendar_dim", "write_us_demographics_dim", "write_us_airport_dim",
                   "write_country_dim", "write_immigration_fact">>

============================================================================
